---- MODULE Spec2Model ----
(***************************************************************************)
(* Model of the detection engine of ai_cloud_threat_hunter.py: the         *)
(* ThreatHunter class (sliding-window counters, EWMA rate model, rules),   *)
(* the Stats totals with the bounded alert buffer, and to_report.          *)
(*                                                                         *)
(* Time is the integer reading of the wall clock (time.time() and          *)
(* datetime.utcnow()); it never goes backwards.  Rates, means and          *)
(* variances are exact rationals <<numerator, denominator>>.  Scores are   *)
(* integers in hundredths, which is what round(float(score), 2) keeps.     *)
(***************************************************************************)
EXTENDS Integers, Sequences, FiniteSets, TLC

VARIABLES
    now,                  \* the wall clock read by time.time() / utcnow()
    ewma_alpha,           \* ThreatHunter.ewma_alpha, a rational in (0,1]
    events_by_ip,         \* ip -> deque of timestamps (all requests)
    failed_logins_by_ip,  \* ip -> deque of timestamps (failed logins)
    status_by_ip,         \* ip -> status -> deque of timestamps
    rate_model,           \* ip -> EWMA
    total_lines,          \* Stats.total_lines
    total_events,         \* Stats.total_events
    total_alerts,         \* Stats.total_alerts
    per_ip_count,         \* Stats.per_ip_count, in insertion order
    last_alerts,          \* Stats.last_alerts, deque(maxlen=100)
    emitted,              \* history: every Alert built by _alert, in order
    recorded,             \* history: counter key -> every timestamp appended
    prunedAt,             \* history: counter key -> time of its last prune
    lastCall,             \* history: the last ingest_event call and its effect
    reports,              \* history: reports returned since the last ingest
    ewma,                 \* an EWMA object on its own
    fed,                  \* history: the values passed to ewma.update
    args,                 \* run: the command-line arguments that matter
    stop_event,           \* run: the threading.Event set by the signal handler
    pc,                   \* run: the position of the loop of run
    it,                   \* run: the position of the generator iter_lines_follow
    unread,               \* run: the lines of the log file after fp's position
    line,                 \* run: the line the generator yielded last
    last_export,          \* run: the time of the last periodic export
    export_file,          \* run: the report in the export file
    yielded,              \* history: how many lines the generator has yielded
    stopped_at            \* history: where run was when the signal arrived

\* a standalone EWMA and its history
ewmaVars == <<ewma, fed>>

\* the state of run and of its line generator
runVars == <<args, stop_event, pc, it, unread, line, last_export, export_file,
             yielded, stopped_at>>

vars == <<now, ewma_alpha, events_by_ip, failed_logins_by_ip, status_by_ip,
          rate_model, total_lines, total_events, total_alerts, per_ip_count,
          last_alerts, emitted, recorded, prunedAt, lastCall, reports,
          ewma, fed, args, stop_event, pc, it, unread, line, last_export,
          export_file, yielded, stopped_at>>

(***************************************************************************)
(* Bounds of the model and configuration of the hunter.                    *)
(***************************************************************************)
window == 1
threshold == 2
MaxTime == 2
MaxEvents == 2
MaxDeep == 3
MaxReports == 2
MaxFlood == 103
MaxExtra == 2
MaxRate == 5
MaxRequests == 2
MaxUpdates == 3
MaxLines == 2

\* deque(maxlen=100) of Stats.last_alerts
ALERT_BUFFER == 100
\* the [:10] slice of to_report
TOP_N == 10

NoIp == ""
Entities == {"1.2.3.4", "5.6.7.8"}
Statuses == {"200", "403", "404"}

Min(a, b) == IF a <= b THEN a ELSE b
Max(a, b) == IF a >= b THEN a ELSE b

(***************************************************************************)
(* Strings are sequences of one-character strings, so that the substring   *)
(* test of the suspicious-path rule is computed as Python computes it.     *)
(***************************************************************************)
SUSPICIOUS_PATHS ==
    << <<"/","w","p","-","l","o","g","i","n",".","p","h","p">>,
       <<"/","w","p","-","a","d","m","i","n">>,
       <<"/","a","d","m","i","n">>,
       <<"/","p","h","p","m","y","a","d","m","i","n">>,
       <<"/",".","e","n","v">>,
       <<"/","c","o","n","f","i","g",".","p","h","p">>,
       <<"/",".","g","i","t">>,
       <<"/",".","D","S","_","S","t","o","r","e">>,
       <<"/","s","e","r","v","e","r","-","s","t","a","t","u","s">>,
       <<"/","a","c","t","u","a","t","o","r">>,
       <<"/","j","e","n","k","i","n","s">>,
       <<"/","b","o","a","f","o","r","m","/","a","d","m","i","n","/",
         "f","o","r","m","L","o","g","i","n">> >>

\* Python's `sub in text` for strings
Contains(text, sub) ==
    \E i \in 0..(Len(text) - Len(sub)) :
        SubSeq(text, i + 1, i + Len(sub)) = sub

\* any(susp in path for susp in SUSPICIOUS_PATHS)
IsSuspicious(path) ==
    \E k \in 1..Len(SUSPICIOUS_PATHS) : Contains(path, SUSPICIOUS_PATHS[k])

PlainPath == <<"/","a">>
AdminPath == <<"/","x","/","a","d","m","i","n">>
EnvPath == <<"/",".","e","n","v">>
Paths == {PlainPath, AdminPath}

(***************************************************************************)
(* defaultdict: a function whose domain is the set of keys created so far. *)
(***************************************************************************)
EmptyMap == [k \in {} |-> 0]
Get(m, k, default) == IF k \in DOMAIN m THEN m[k] ELSE default
Put(m, k, v) == [x \in (DOMAIN m) \cup {k} |-> IF x = k THEN v ELSE m[x]]

(***************************************************************************)
(* Exact rationals.                                                        *)
(***************************************************************************)
Abs(n) == IF n < 0 THEN -n ELSE n

RECURSIVE GCD(_, _)
GCD(a, b) == IF b = 0 THEN a ELSE GCD(b, a % b)

Rat(n, d) ==
    LET g == GCD(Abs(n), Abs(d))
        s == IF d < 0 THEN -1 ELSE 1
    IN  <<(s * n) \div g, (s * d) \div g>>

RatAdd(a, b) ==
    LET g == GCD(a[2], b[2])
    IN  Rat(a[1] * (b[2] \div g) + b[1] * (a[2] \div g), (a[2] \div g) * b[2])
RatSub(a, b) == RatAdd(a, <<-b[1], b[2]>>)
RatMul(a, b) ==
    LET g1 == GCD(Abs(a[1]), b[2])
        g2 == GCD(Abs(b[1]), a[2])
        h1 == IF g1 = 0 THEN 1 ELSE g1
        h2 == IF g2 = 0 THEN 1 ELSE g2
    IN  Rat((a[1] \div h1) * (b[1] \div h2), (a[2] \div h2) * (b[2] \div h1))
RatLess(a, b) == RatSub(a, b)[1] < 0
RatOne == <<1, 1>>
RatZero == <<0, 1>>

(***************************************************************************)
(* class EWMA                                                              *)
(***************************************************************************)
\* the floor 1e-6 of EWMA.zscore is 1 / FLOOR_DEN
FLOOR_DEN == 1000000
\* the literal 3.0 of _check_rate_anomaly
Z_LIMIT == 3

\* EWMA(alpha=self.ewma_alpha): the dataclass defaults
NewEWMA == [mean |-> RatZero, var |-> RatOne, initialized |-> FALSE]

\* an update whose variance only decays: the squared deviation is left out
EwmaUpdateDecayOnly(m, alpha, x) ==
    IF ~m.initialized
    THEN [mean |-> x, var |-> RatOne, initialized |-> TRUE]
    ELSE LET rest == RatSub(RatOne, alpha)
         IN  [mean |-> RatAdd(RatMul(alpha, x), RatMul(rest, m.mean)),
              var |-> RatMul(rest, m.var),
              initialized |-> TRUE]

\* an update whose first call blends x into the defaults instead of
\* taking x as the mean
EwmaUpdateNoSeed(m, alpha, x) ==
    LET prev == m.mean
        d == RatSub(x, prev)
        rest == RatSub(RatOne, alpha)
    IN  [mean |-> RatAdd(RatMul(alpha, x), RatMul(rest, m.mean)),
         var |-> RatAdd(RatMul(alpha, RatMul(d, d)), RatMul(rest, m.var)),
         initialized |-> TRUE]

\* EWMA.update
EwmaUpdate(m, alpha, x) ==
    IF ~m.initialized
    THEN [mean |-> x, var |-> RatOne, initialized |-> TRUE]
    ELSE LET prev == m.mean
             d == RatSub(x, prev)
             rest == RatSub(RatOne, alpha)
         IN  [mean |-> RatAdd(RatMul(alpha, x), RatMul(rest, m.mean)),
              var |-> RatAdd(RatMul(alpha, RatMul(d, d)), RatMul(rest, m.var)),
              initialized |-> TRUE]

\* max(self.var, 1e-6)
FlooredVar(m) ==
    IF m.var[1] <= (m.var[2] - 1) \div FLOOR_DEN THEN <<1, FLOOR_DEN>> ELSE m.var

\* EWMA.zscore(x) = 0: std = sqrt(max(var, 1e-6)) is positive, so the
\* quotient (x - mean) / std is 0 iff x = mean
ZScoreIsZero(m, x) == RatSub(x, m.mean)[1] = 0

\* EWMA.zscore(x) > 3.0: std = sqrt(max(var, 1e-6)) is positive, so
\* (x - mean) / std > 3 iff x - mean > 0 and (x - mean)^2 > 9 * max(var, 1e-6)
ZScoreAboveLimit(m, x) ==
    LET d == RatSub(x, m.mean)
    IN  /\ d[1] > 0
        /\ RatLess(RatMul(<<Z_LIMIT * Z_LIMIT, 1>>, FlooredVar(m)), RatMul(d, d))

(***************************************************************************)
(* class ThreatHunter.  The methods are operators on the record h of the   *)
(* hunter's fields (with Stats inlined); t is the caller's `now`.          *)
(***************************************************************************)
Hunter ==
    [events_by_ip |-> events_by_ip,
     failed_logins_by_ip |-> failed_logins_by_ip,
     status_by_ip |-> status_by_ip,
     rate_model |-> rate_model,
     total_events |-> total_events,
     total_alerts |-> total_alerts,
     per_ip_count |-> per_ip_count,
     last_alerts |-> last_alerts,
     emitted |-> emitted,
     recorded |-> recorded,
     prunedAt |-> prunedAt]

\* keys of the history variables
AllKey(ip) == <<"all", ip, "">>
FailedKey(ip) == <<"failed", ip, "">>
StatusKey(ip, status) == <<"status", ip, status>>

\* _prune_window dropping what is exactly `window` old
RECURSIVE PruneWindowStrict(_, _)
PruneWindowStrict(dq, t) ==
    IF dq # <<>> /\ t - Head(dq) >= window
    THEN PruneWindowStrict(Tail(dq), t)
    ELSE dq

\* _prune_window with `if` for `while`: it drops one timestamp at most
PruneWindowOnce(dq, t) ==
    IF dq # <<>> /\ t - Head(dq) > window THEN Tail(dq) ELSE dq

\* ThreatHunter._prune_window
RECURSIVE PruneWindow(_, _)
PruneWindow(dq, t) ==
    IF dq # <<>> /\ t - Head(dq) > window
    THEN PruneWindow(Tail(dq), t)
    ELSE dq

\* a deque that never evicts
DequeAppendUnbounded(dq, a) == Append(dq, a)

\* collections.deque(maxlen=100).append
DequeAppend(dq, a) ==
    IF Len(dq) >= ALERT_BUFFER THEN Append(Tail(dq), a) ELSE Append(dq, a)

\* ThreatHunter._alert
Alert(h, severity, kind, ip, detail, score, t) ==
    LET a == [ts |-> t, severity |-> severity, kind |-> kind, ip |-> ip,
              detail |-> detail, score |-> score]
    IN  [h EXCEPT !.total_alerts = @ + 1,
                  !.last_alerts = DequeAppend(@, a),
                  !.emitted = Append(@, a)]

\* self.stats.per_ip_count[ip] += 1 on a defaultdict(int) that keeps
\* insertion order
RECURSIVE CountOf(_, _)
CountOf(counts, ip) ==
    IF counts = <<>> THEN 0
    ELSE IF Head(counts).ip = ip THEN Head(counts).events
    ELSE CountOf(Tail(counts), ip)

IncrCount(counts, ip) ==
    IF \E i \in 1..Len(counts) : counts[i].ip = ip
    THEN [i \in 1..Len(counts) |->
            IF counts[i].ip = ip
            THEN [counts[i] EXCEPT !.events = @ + 1]
            ELSE counts[i]]
    ELSE Append(counts, [ip |-> ip, events |-> 1])

\* the body of _record_request after its `if not ip: return`
DoRecordRequest(h, ip, status, t) ==
    LET dq == PruneWindow(Append(Get(h.events_by_ip, ip, <<>>), t), t)
        byStatus == Get(h.status_by_ip, ip, EmptyMap)
        dqs == PruneWindow(Append(Get(byStatus, status, <<>>), t), t)
    IN  [h EXCEPT
           !.events_by_ip = Put(@, ip, dq),
           !.per_ip_count = IncrCount(@, ip),
           !.status_by_ip = Put(@, ip, Put(byStatus, status, dqs)),
           !.recorded = Put(Put(@, AllKey(ip),
                                Append(Get(@, AllKey(ip), <<>>), t)),
                            StatusKey(ip, status),
                            Append(Get(@, StatusKey(ip, status), <<>>), t)),
           !.prunedAt = Put(Put(@, AllKey(ip), t), StatusKey(ip, status), t)]

\* a _record_request that prunes the all-requests counter of every entity
RecordRequestSweeping(h, ip, status, t) ==
    IF ip = NoIp THEN h
    ELSE LET g == DoRecordRequest(h, ip, status, t)
         IN  [g EXCEPT !.events_by_ip =
                 [e \in DOMAIN g.events_by_ip |-> PruneWindow(g.events_by_ip[e], t)]]

\* ThreatHunter._record_request
RecordRequest(h, ip, status, t) ==
    IF ip = NoIp THEN h ELSE DoRecordRequest(h, ip, status, t)

\* the severities of the two storms exchanged
StormSeverityFlipped(status) == IF status = "404" THEN "high" ELSE "medium"

\* the severity chosen by _check_status_storm
StormSeverity(status) == IF status = "404" THEN "medium" ELSE "high"

\* f'{status}_storm', for the two statuses ingest_event passes
StormKind(status) == IF status = "404" THEN "404_storm" ELSE "403_storm"

\* _check_status_storm counting the 403s and 404s of the entity together
CheckStatusStormMerged(h, ip, status, t) ==
    IF ip = NoIp THEN h
    ELSE LET byStatus == Get(h.status_by_ip, ip, EmptyMap)
             dq == PruneWindow(Get(byStatus, status, <<>>), t)
             both == Len(PruneWindow(Get(byStatus, "403", <<>>), t)) +
                     Len(PruneWindow(Get(byStatus, "404", <<>>), t))
             g == [h EXCEPT !.status_by_ip = Put(@, ip, Put(byStatus, status, dq)),
                            !.prunedAt = Put(@, StatusKey(ip, status), t)]
         IN  IF both >= threshold
             THEN Alert(g, StormSeverity(status), StormKind(status), ip,
                        <<ToString(both), " ", status, "s in ", ToString(window), "s">>,
                        700 + 100 * (both - threshold), t)
             ELSE g

\* ThreatHunter._check_status_storm
CheckStatusStorm(h, ip, status, t) ==
    IF ip = NoIp THEN h
    ELSE LET byStatus == Get(h.status_by_ip, ip, EmptyMap)
             dq == PruneWindow(Get(byStatus, status, <<>>), t)
             g == [h EXCEPT !.status_by_ip = Put(@, ip, Put(byStatus, status, dq)),
                            !.prunedAt = Put(@, StatusKey(ip, status), t)]
         IN  IF Len(dq) >= threshold
             THEN Alert(g, StormSeverity(status), StormKind(status), ip,
                        <<ToString(Len(dq)), " ", status, "s in ", ToString(window), "s">>,
                        700 + 100 * (Len(dq) - threshold), t)
             ELSE g

\* ThreatHunter._record_failed_login
RecordFailedLogin(h, ip, t) ==
    LET dq == PruneWindow(Append(Get(h.failed_logins_by_ip, ip, <<>>), t), t)
    IN  [h EXCEPT
           !.failed_logins_by_ip = Put(@, ip, dq),
           !.recorded = Put(@, FailedKey(ip), Append(Get(@, FailedKey(ip), <<>>), t)),
           !.prunedAt = Put(@, FailedKey(ip), t)]

\* _check_bruteforce firing one failed login late (`>` for `>=`)
CheckBruteforceLate(h, ip, t) ==
    LET dq == PruneWindow(Get(h.failed_logins_by_ip, ip, <<>>), t)
        g == [h EXCEPT !.failed_logins_by_ip = Put(@, ip, dq),
                       !.prunedAt = Put(@, FailedKey(ip), t)]
    IN  IF Len(dq) > threshold
        THEN Alert(g, "critical", "bruteforce", ip,
                   <<ToString(Len(dq)), " failed logins in ", ToString(window), "s">>,
                   900 + 50 * (Len(dq) - threshold), t)
        ELSE g

\* ThreatHunter._check_bruteforce
CheckBruteforce(h, ip, t) ==
    LET dq == PruneWindow(Get(h.failed_logins_by_ip, ip, <<>>), t)
        g == [h EXCEPT !.failed_logins_by_ip = Put(@, ip, dq),
                       !.prunedAt = Put(@, FailedKey(ip), t)]
    IN  IF Len(dq) >= threshold
        THEN Alert(g, "critical", "bruteforce", ip,
                   <<ToString(Len(dq)), " failed logins in ", ToString(window), "s">>,
                   900 + 50 * (Len(dq) - threshold), t)
        ELSE g

\* _check_rate_anomaly taking the z-score before the model is updated
CheckRateAnomalyStale(h, alpha, ip, t) ==
    IF ip = NoIp THEN h
    ELSE LET dq == PruneWindow(Get(h.events_by_ip, ip, <<>>), t)
             rate == Rat(Len(dq), Max(window, 1))
             old == Get(h.rate_model, ip, NewEWMA)
             model == EwmaUpdate(old, alpha, rate)
             g == [h EXCEPT !.events_by_ip = Put(@, ip, dq),
                            !.rate_model = Put(@, ip, model),
                            !.prunedAt = Put(@, AllKey(ip), t)]
         IN  IF ZScoreAboveLimit(old, rate) /\ Len(dq) > threshold
             THEN Alert(g, "high", "rate_anomaly", ip, <<"rate=", ToString(rate[1]), "/", ToString(rate[2])>>, 1000, t)
             ELSE g

\* ThreatHunter._check_rate_anomaly.  When z > 3.0 the score
\* min(10.0, 7.5 + z) is 10.0; the z and rate printed in the detail are
\* kept as the exact rate.
CheckRateAnomaly(h, alpha, ip, t) ==
    IF ip = NoIp THEN h
    ELSE LET dq == PruneWindow(Get(h.events_by_ip, ip, <<>>), t)
             rate == Rat(Len(dq), Max(window, 1))
             model == EwmaUpdate(Get(h.rate_model, ip, NewEWMA), alpha, rate)
             g == [h EXCEPT !.events_by_ip = Put(@, ip, dq),
                            !.rate_model = Put(@, ip, model),
                            !.prunedAt = Put(@, AllKey(ip), t)]
         IN  IF ZScoreAboveLimit(model, rate) /\ Len(dq) > threshold
             THEN Alert(g, "high", "rate_anomaly", ip, <<"rate=", ToString(rate[1]), "/", ToString(rate[2])>>, 1000, t)
             ELSE g

\* a dispatch that tests the path only for the statuses 403 and 404
DispatchStatusGated(h, alpha, ev, t) ==
    IF ev.type = "nginx"
    THEN LET h1 == RecordRequest(h, ev.ip, ev.status, t)
             h2 == IF ev.status \in {"403", "404"} /\ IsSuspicious(ev.path)
                   THEN Alert(h1, "medium", "suspicious_path", ev.ip,
                              <<"path=">> \o ev.path, 600, t)
                   ELSE h1
             h3 == IF ev.status \in {"403", "404"}
                   THEN CheckStatusStorm(h2, ev.ip, ev.status, t)
                   ELSE h2
         IN  CheckRateAnomaly(h3, alpha, ev.ip, t)
    ELSE IF ev.type = "syslog"
    THEN IF ev.event = "failed_login" /\ ev.ip # NoIp
         THEN CheckBruteforce(RecordFailedLogin(h, ev.ip, t), ev.ip, t)
         ELSE IF ev.event = "accepted_login" /\ ev.ip # NoIp
         THEN RecordRequest(h, ev.ip, "200", t)
         ELSE h
    ELSE h

\* a dispatch that also runs the rate rule on an accepted login
DispatchRatedLogin(h, alpha, ev, t) ==
    IF ev.type = "nginx"
    THEN LET h1 == RecordRequest(h, ev.ip, ev.status, t)
             h2 == IF IsSuspicious(ev.path)
                   THEN Alert(h1, "medium", "suspicious_path", ev.ip,
                              <<"path=">> \o ev.path, 600, t)
                   ELSE h1
             h3 == IF ev.status \in {"403", "404"}
                   THEN CheckStatusStorm(h2, ev.ip, ev.status, t)
                   ELSE h2
         IN  CheckRateAnomaly(h3, alpha, ev.ip, t)
    ELSE IF ev.type = "syslog"
    THEN IF ev.event = "failed_login" /\ ev.ip # NoIp
         THEN CheckBruteforce(RecordFailedLogin(h, ev.ip, t), ev.ip, t)
         ELSE IF ev.event = "accepted_login" /\ ev.ip # NoIp
         THEN CheckRateAnomaly(RecordRequest(h, ev.ip, "200", t), alpha, ev.ip, t)
         ELSE h
    ELSE h

\* a dispatch that evaluates the storm rule before the suspicious-path rule
DispatchStormFirst(h, alpha, ev, t) ==
    IF ev.type = "nginx"
    THEN LET h1 == RecordRequest(h, ev.ip, ev.status, t)
             h2 == IF ev.status \in {"403", "404"}
                   THEN CheckStatusStorm(h1, ev.ip, ev.status, t)
                   ELSE h1
             h3 == IF IsSuspicious(ev.path)
                   THEN Alert(h2, "medium", "suspicious_path", ev.ip,
                              <<"path=">> \o ev.path, 600, t)
                   ELSE h2
         IN  CheckRateAnomaly(h3, alpha, ev.ip, t)
    ELSE IF ev.type = "syslog"
    THEN IF ev.event = "failed_login" /\ ev.ip # NoIp
         THEN CheckBruteforce(RecordFailedLogin(h, ev.ip, t), ev.ip, t)
         ELSE IF ev.event = "accepted_login" /\ ev.ip # NoIp
         THEN RecordRequest(h, ev.ip, "200", t)
         ELSE h
    ELSE h

\* ThreatHunter.ingest_event, after `self.stats.total_events += 1`
Dispatch(h, alpha, ev, t) ==
    IF ev.type = "nginx"
    THEN LET h1 == RecordRequest(h, ev.ip, ev.status, t)
             h2 == IF IsSuspicious(ev.path)
                   THEN Alert(h1, "medium", "suspicious_path", ev.ip,
                              <<"path=">> \o ev.path, 600, t)
                   ELSE h1
             h3 == IF ev.status \in {"403", "404"}
                   THEN CheckStatusStorm(h2, ev.ip, ev.status, t)
                   ELSE h2
         IN  CheckRateAnomaly(h3, alpha, ev.ip, t)
    ELSE IF ev.type = "syslog"
    THEN IF ev.event = "failed_login" /\ ev.ip # NoIp
         THEN CheckBruteforce(RecordFailedLogin(h, ev.ip, t), ev.ip, t)
         ELSE IF ev.event = "accepted_login" /\ ev.ip # NoIp
         THEN RecordRequest(h, ev.ip, "200", t)
         ELSE h
    ELSE h

\* ThreatHunter.ingest_event
IngestResult(h, alpha, ev, t) ==
    Dispatch([h EXCEPT !.total_events = @ + 1], alpha, ev, t)

(***************************************************************************)
(* ThreatHunter.to_report                                                  *)
(***************************************************************************)
\* sorted(items, key=lambda kv: kv[1], reverse=True): a stable sort, so
\* items with equal counts keep their dict (insertion) order
\* an insertion that puts an item before the items of equal count
RECURSIVE InsertDescUnstable(_, _)
InsertDescUnstable(sorted, item) ==
    IF sorted = <<>> THEN <<item>>
    ELSE IF Head(sorted).events > item.events
    THEN <<Head(sorted)>> \o InsertDescUnstable(Tail(sorted), item)
    ELSE <<item>> \o sorted

RECURSIVE InsertDesc(_, _)
InsertDesc(sorted, item) ==
    IF sorted = <<>> THEN <<item>>
    ELSE IF Head(sorted).events >= item.events
    THEN <<Head(sorted)>> \o InsertDesc(Tail(sorted), item)
    ELSE <<item>> \o sorted

RECURSIVE SortedDesc(_)
SortedDesc(items) ==
    IF items = <<>> THEN <<>>
    ELSE InsertDesc(SortedDesc(SubSeq(items, 1, Len(items) - 1)),
                    items[Len(items)])

\* top_ips of to_report
TopIps(counts) ==
    LET sorted == SortedDesc(counts)
    IN  SubSeq(sorted, 1, Min(TOP_N, Len(sorted)))

\* a report that lists only the alerts younger than the window
ToReportValueWindowed ==
    [generated_at |-> now,
     window_seconds |-> window,
     threshold |-> threshold,
     totals |-> [lines_processed |-> total_lines,
                 events_parsed |-> total_events,
                 alerts |-> total_alerts],
     top_ips |-> TopIps(per_ip_count),
     recent_alerts |-> SelectSeq(last_alerts, LAMBDA a : now - a.ts <= window)]

\* the dict returned by to_report
ToReportValue ==
    [generated_at |-> now,
     window_seconds |-> window,
     threshold |-> threshold,
     totals |-> [lines_processed |-> total_lines,
                 events_parsed |-> total_events,
                 alerts |-> total_alerts],
     top_ips |-> TopIps(per_ip_count),
     recent_alerts |-> last_alerts]

(***************************************************************************)
(* Events delivered to ingest_event.                                       *)
(***************************************************************************)
NginxEvents(ips) ==
    {[type |-> "nginx", ip |-> ip, path |-> p, status |-> st, event |-> "none"] :
        ip \in ips, p \in Paths, st \in Statuses}

SyslogEvents(ips) ==
    {[type |-> "syslog", ip |-> ip, path |-> <<>>, status |-> "", event |-> e] :
        ip \in ips, e \in {"failed_login", "accepted_login", "none"}}

Events == NginxEvents(Entities \cup {NoIp}) \cup SyslogEvents(Entities \cup {NoIp})

NoEvent == [type |-> "none", ip |-> NoIp, path |-> <<>>, status |-> "", event |-> "none"]

\* the default ewma_alpha = 0.3
DefaultAlpha == <<3, 10>>

(***************************************************************************)
(* The state machine.                                                      *)
(***************************************************************************)
\* a line of the log is what parse_line makes of it: an event, or None for
\* a line that no format matches
NoLine == [text |-> "none", parsed |-> FALSE, ev |-> NoEvent]
GarbageLine == [text |-> "garbage", parsed |-> FALSE, ev |-> NoEvent]
EventLine(ev) == [text |-> "event", parsed |-> TRUE, ev |-> ev]

\* no report written yet
NoReport == [generated_at |-> -1]

\* no signal so far
NotStopped == [pc |-> "none", lines |-> 0, events |-> 0, yielded |-> 0]

\* a fresh EWMA that nothing was fed to
InitEwmaFresh ==
    /\ ewma = NewEWMA
    /\ fed = <<>>

\* run has not been called: the hunter is driven directly
InitNoRun ==
    /\ args = [replay |-> FALSE, export |-> FALSE, export_every |-> 1]
    /\ stop_event = FALSE
    /\ pc = "idle"
    /\ it = "idle"
    /\ unread = <<>>
    /\ line = NoLine
    /\ last_export = 0
    /\ export_file = NoReport
    /\ yielded = 0
    /\ stopped_at = NotStopped

Init ==
    /\ now = 0
    /\ ewma_alpha = DefaultAlpha
    /\ events_by_ip = EmptyMap
    /\ failed_logins_by_ip = EmptyMap
    /\ status_by_ip = EmptyMap
    /\ rate_model = EmptyMap
    /\ total_lines = 0
    /\ total_events = 0
    /\ total_alerts = 0
    /\ per_ip_count = <<>>
    /\ last_alerts = <<>>
    /\ emitted = <<>>
    /\ recorded = EmptyMap
    /\ prunedAt = EmptyMap
    /\ lastCall = [ev |-> NoEvent, t |-> 0, first |-> 1]
    /\ reports = <<>>
    /\ InitEwmaFresh
    /\ InitNoRun

\* the wall clock advances
Tick ==
    /\ now < MaxTime
    /\ now' = now + 1
    /\ UNCHANGED <<ewma_alpha, events_by_ip, failed_logins_by_ip, status_by_ip,
                   rate_model, total_lines, total_events, total_alerts,
                   per_ip_count, last_alerts, emitted, recorded, prunedAt,
                   lastCall, reports>>
    /\ UNCHANGED <<ewmaVars, runVars>>

\* the effect of ingest_event(ev) on the hunter
IngestEffect(ev) ==
    LET h == IngestResult(Hunter, ewma_alpha, ev, now)
    IN  /\ events_by_ip' = h.events_by_ip
        /\ failed_logins_by_ip' = h.failed_logins_by_ip
        /\ status_by_ip' = h.status_by_ip
        /\ rate_model' = h.rate_model
        /\ total_events' = h.total_events
        /\ total_alerts' = h.total_alerts
        /\ per_ip_count' = h.per_ip_count
        /\ last_alerts' = h.last_alerts
        /\ emitted' = h.emitted
        /\ recorded' = h.recorded
        /\ prunedAt' = h.prunedAt
        /\ lastCall' = [ev |-> ev, t |-> now, first |-> Len(emitted) + 1]
        /\ reports' = <<>>

\* one call of ingest_event(ev)
IngestEvent(ev) ==
    /\ IngestEffect(ev)
    /\ UNCHANGED <<now, ewma_alpha, total_lines>>
    /\ UNCHANGED <<ewmaVars, runVars>>

\* ingest_event on any event of the feed
Ingest ==
    /\ total_events < MaxEvents
    /\ \E ev \in Events : IngestEvent(ev)

\* a to_report that looks an entity up in the defaultdict of counts, which
\* creates its key
ToReportLookup ==
    /\ Len(reports) < MaxReports
    /\ reports' = Append(reports, ToReportValue)
    /\ per_ip_count' =
          IF \E i \in 1..Len(per_ip_count) : per_ip_count[i].ip = "1.2.3.4"
          THEN per_ip_count
          ELSE Append(per_ip_count, [ip |-> "1.2.3.4", events |-> 0])
    /\ UNCHANGED <<now, ewma_alpha, events_by_ip, failed_logins_by_ip,
                   status_by_ip, rate_model, total_lines, total_events,
                   total_alerts, last_alerts, emitted, recorded,
                   prunedAt, lastCall>>
    /\ UNCHANGED <<ewmaVars, runVars>>

\* one call of to_report()
ToReport ==
    /\ Len(reports) < MaxReports
    /\ reports' = Append(reports, ToReportValue)
    /\ UNCHANGED <<now, ewma_alpha, events_by_ip, failed_logins_by_ip,
                   status_by_ip, rate_model, total_lines, total_events,
                   total_alerts, per_ip_count, last_alerts, emitted, recorded,
                   prunedAt, lastCall>>
    /\ UNCHANGED <<ewmaVars, runVars>>

Next == Tick \/ Ingest \/ ToReport

Spec == Init /\ [][Next]_vars

(***************************************************************************)
(* The engine alone: every event of the feed, no report consumer.          *)
(***************************************************************************)
NextEngine == Tick \/ Ingest

SpecEngine == Init /\ [][NextEngine]_vars

(***************************************************************************)
(* A syslog feed: failed and accepted logins, longer runs.                 *)
(***************************************************************************)
AuthEvents == SyslogEvents(Entities \cup {NoIp})

IngestAuth ==
    /\ total_events < MaxDeep
    /\ \E ev \in AuthEvents : IngestEvent(ev)

NextAuth == Tick \/ IngestAuth

SpecAuth == Init /\ [][NextAuth]_vars

(***************************************************************************)
(* An access-log feed: every request of one entity and the 404s of         *)
(* another, longer runs.                                                   *)
(***************************************************************************)
WebEvents ==
    NginxEvents({"1.2.3.4"}) \cup
    {[type |-> "nginx", ip |-> "5.6.7.8", path |-> PlainPath, status |-> "404",
      event |-> "none"]}

IngestWeb ==
    /\ total_events < MaxDeep
    /\ \E ev \in WebEvents : IngestEvent(ev)

NextWeb == Tick \/ IngestWeb

SpecWeb == Init /\ [][NextWeb]_vars

(***************************************************************************)
(* A flood of failed logins of one entity, long enough to fill the alert   *)
(* buffer.                                                                 *)
(***************************************************************************)
FloodEvent ==
    [type |-> "syslog", ip |-> "1.2.3.4", path |-> <<>>, status |-> "",
     event |-> "failed_login"]

IngestFlood ==
    /\ total_events < MaxFlood
    /\ IngestEvent(FloodEvent)

NextFlood == IngestFlood

SpecFlood == Init /\ [][NextFlood]_vars

(***************************************************************************)
(* A short feed with a report consumer.                                    *)
(***************************************************************************)
ReportEvents ==
    {[type |-> "nginx", ip |-> "1.2.3.4", path |-> AdminPath, status |-> "404",
      event |-> "none"],
     [type |-> "nginx", ip |-> "5.6.7.8", path |-> PlainPath, status |-> "200",
      event |-> "none"],
     [type |-> "syslog", ip |-> "5.6.7.8", path |-> <<>>, status |-> "",
      event |-> "failed_login"]}

IngestReported ==
    /\ total_events < MaxEvents
    /\ \E ev \in ReportEvents : IngestEvent(ev)

NextReport == Tick \/ IngestReported \/ ToReport

SpecReport == Init /\ [][NextReport]_vars

(***************************************************************************)
(* More entities than the report lists: accepted logins of TOP_N + 1       *)
(* entities, first seen in one of two orders, and a report consumer.       *)
(***************************************************************************)
TopOrder ==
    <<"10.0.0.1", "10.0.0.2", "10.0.0.3", "10.0.0.4", "10.0.0.5", "10.0.0.6",
      "10.0.0.7", "10.0.0.8", "10.0.0.9", "10.0.0.10", "10.0.0.11">>

Reverse(seq) == [i \in 1..Len(seq) |-> seq[Len(seq) + 1 - i]]

TopOrders == {TopOrder, Reverse(TopOrder)}

SeenIps == [i \in 1..Len(per_ip_count) |-> per_ip_count[i].ip]

IngestTop ==
    \E i \in 1..Len(TopOrder) :
        LET ip == TopOrder[i]
        IN  /\ \/ /\ \E k \in 1..Len(per_ip_count) : per_ip_count[k].ip = ip
                  /\ total_events - Len(per_ip_count) < MaxExtra
               \/ /\ Len(per_ip_count) < Len(TopOrder)
                  /\ \E order \in TopOrders :
                        SubSeq(order, 1, Len(per_ip_count) + 1) = Append(SeenIps, ip)
            /\ IngestEvent([type |-> "syslog", ip |-> ip, path |-> <<>>,
                            status |-> "", event |-> "accepted_login"])

NextTop == IngestTop \/ ToReport

SpecTop == Init /\ [][NextTop]_vars

(***************************************************************************)
(* Bursts of one entity under several values of ewma_alpha: requests that  *)
(* match the suspicious-path and storm rules, plain requests, and accepted *)
(* logins, which raise the all-requests count between two updates of the   *)
(* rate model.  The requests are capped: every update of the rate model    *)
(* squares the denominators of the exact variance.                         *)
(***************************************************************************)
SmallAlpha == <<1, 32>>

Alphas == {SmallAlpha, DefaultAlpha, RatOne}

InitRate ==
    /\ now = 0
    /\ ewma_alpha \in Alphas
    /\ events_by_ip = EmptyMap
    /\ failed_logins_by_ip = EmptyMap
    /\ status_by_ip = EmptyMap
    /\ rate_model = EmptyMap
    /\ total_lines = 0
    /\ total_events = 0
    /\ total_alerts = 0
    /\ per_ip_count = <<>>
    /\ last_alerts = <<>>
    /\ emitted = <<>>
    /\ recorded = EmptyMap
    /\ prunedAt = EmptyMap
    /\ lastCall = [ev |-> NoEvent, t |-> 0, first |-> 1]
    /\ reports = <<>>
    /\ InitEwmaFresh
    /\ InitNoRun

RateRequests ==
    {[type |-> "nginx", ip |-> "1.2.3.4", path |-> AdminPath, status |-> "404",
      event |-> "none"],
     [type |-> "nginx", ip |-> "1.2.3.4", path |-> PlainPath, status |-> "403",
      event |-> "none"]}

RateLogin ==
    [type |-> "syslog", ip |-> "1.2.3.4", path |-> <<>>, status |-> "",
     event |-> "accepted_login"]

\* the requests ingested so far (the accepted logins are the 200s)
RequestsSoFar ==
    Len(Get(recorded, StatusKey("1.2.3.4", "404"), <<>>)) +
    Len(Get(recorded, StatusKey("1.2.3.4", "403"), <<>>))

IngestRate ==
    /\ total_events < MaxRate
    /\ \/ /\ RequestsSoFar < MaxRequests
          /\ \E ev \in RateRequests : IngestEvent(ev)
       \/ IngestEvent(RateLogin)

NextRate == Tick \/ IngestRate

SpecRate == InitRate /\ [][NextRate]_vars

(***************************************************************************)
(* EWMA on its own: a fresh object is fed any values, under several alpha. *)
(***************************************************************************)
Values == {RatZero, <<1, 2>>, RatOne, <<3, 1>>}

\* ewma.update(x)
UpdateEwma ==
    /\ Len(fed) < MaxUpdates
    /\ \E x \in Values :
          /\ ewma' = EwmaUpdate(ewma, ewma_alpha, x)
          /\ fed' = Append(fed, x)
    /\ UNCHANGED <<now, ewma_alpha, events_by_ip, failed_logins_by_ip,
                   status_by_ip, rate_model, total_lines, total_events,
                   total_alerts, per_ip_count, last_alerts, emitted, recorded,
                   prunedAt, lastCall, reports>>
    /\ UNCHANGED runVars

NextEwma == UpdateEwma

SpecEwma == InitRate /\ [][NextEwma]_vars

(***************************************************************************)
(* A mixed feed of one entity under a small ewma_alpha, where one request  *)
(* can match every request rule at once: requests, failed logins (both     *)
(* capped together) and accepted logins.                                   *)
(***************************************************************************)
InitMix == InitRate /\ ewma_alpha = SmallAlpha

FailedSoFar == Len(Get(recorded, FailedKey("1.2.3.4"), <<>>))

IngestMix ==
    /\ total_events < MaxRate
    /\ \/ /\ RequestsSoFar + FailedSoFar < MaxRequests
          /\ \E ev \in RateRequests \cup {FloodEvent} : IngestEvent(ev)
       \/ IngestEvent(RateLogin)

NextMix == Tick \/ IngestMix

SpecMix == InitMix /\ [][NextMix]_vars

(***************************************************************************)
(* run: the loop over the lines of iter_lines_follow, the signal handler   *)
(* and the exports.  The loop and the generator are one thread: the        *)
(* generator runs while the loop waits for its next line.  The handler     *)
(* runs between any two steps of that thread.  Rendering (build_table,     *)
(* print_plain) only reads a report and is left out.                       *)
(***************************************************************************)
\* the hunter's state, the clock and the configuration apart
hunterVars ==
    <<events_by_ip, failed_logins_by_ip, status_by_ip, rate_model, total_events,
      total_alerts, per_ip_count, last_alerts, emitted, recorded, prunedAt,
      lastCall, reports>>

\* the lines a log can hold
Lines ==
    {GarbageLine,
     EventLine([type |-> "nginx", ip |-> "1.2.3.4", path |-> AdminPath,
                status |-> "404", event |-> "none"])}

\* run(args) is called: the hunter is built, the handler installed, the
\* log opened, the generator created
InitRun ==
    /\ now = 0
    /\ ewma_alpha = DefaultAlpha
    /\ events_by_ip = EmptyMap
    /\ failed_logins_by_ip = EmptyMap
    /\ status_by_ip = EmptyMap
    /\ rate_model = EmptyMap
    /\ total_lines = 0
    /\ total_events = 0
    /\ total_alerts = 0
    /\ per_ip_count = <<>>
    /\ last_alerts = <<>>
    /\ emitted = <<>>
    /\ recorded = EmptyMap
    /\ prunedAt = EmptyMap
    /\ lastCall = [ev |-> NoEvent, t |-> 0, first |-> 1]
    /\ reports = <<>>
    /\ InitEwmaFresh
    /\ args \in [replay : BOOLEAN, export : BOOLEAN, export_every : {1}]
    /\ stop_event = FALSE
    /\ pc = "next"
    /\ it = "start"
    /\ unread \in {<<>>} \cup {<<l>> : l \in Lines}
    /\ line = NoLine
    /\ last_export = 0
    /\ export_file = NoReport
    /\ yielded = 0
    /\ stopped_at = NotStopped

\* another process appends a line to the log
AppendLine ==
    /\ pc \notin {"idle", "done"}
    /\ yielded + Len(unread) < MaxLines
    /\ \E l \in Lines : unread' = Append(unread, l)
    /\ UNCHANGED <<now, ewma_alpha, total_lines, hunterVars, ewmaVars>>
    /\ UNCHANGED <<args, stop_event, pc, it, line, last_export, export_file,
                   yielded, stopped_at>>

\* _sig: SIGINT or SIGTERM arrives and the handler sets the stop event
Signal ==
    /\ pc \notin {"idle", "done"}
    /\ ~stop_event
    /\ stop_event' = TRUE
    /\ stopped_at' = [pc |-> pc, lines |-> total_lines, events |-> total_events,
                      yielded |-> yielded]
    /\ UNCHANGED <<now, ewma_alpha, total_lines, hunterVars, ewmaVars>>
    /\ UNCHANGED <<args, pc, it, unread, line, last_export, export_file, yielded>>

\* iter_lines_follow, from its first line to the first loop: seek(0) for a
\* replay, seek to the end of the log otherwise
GenStart ==
    /\ pc = "next" /\ it = "start"
    /\ IF args.replay
       THEN it' = "replay" /\ unread' = unread
       ELSE it' = "follow" /\ unread' = <<>>
    /\ UNCHANGED <<now, ewma_alpha, total_lines, hunterVars, ewmaVars>>
    /\ UNCHANGED <<args, stop_event, pc, line, last_export, export_file,
                   yielded, stopped_at>>

\* iter_lines_follow, `for line in fp: yield line`: the replay of the log,
\* which never looks at the stop event
GenReplay ==
    /\ pc = "next" /\ it = "replay"
    /\ IF unread # <<>>
       THEN /\ line' = Head(unread)
            /\ unread' = Tail(unread)
            /\ yielded' = yielded + 1
            /\ pc' = "check"
            /\ it' = it
       ELSE /\ it' = "follow"
            /\ UNCHANGED <<line, unread, yielded, pc>>
    /\ UNCHANGED <<now, ewma_alpha, total_lines, hunterVars, ewmaVars>>
    /\ UNCHANGED <<args, stop_event, last_export, export_file, stopped_at>>

\* iter_lines_follow, `while not stop_event.is_set()`: the generator returns
\* and the for loop of run ends
GenFollow ==
    /\ pc = "next" /\ it = "follow"
    /\ IF stop_event
       THEN it' = "done" /\ pc' = "final"
       ELSE it' = "read" /\ pc' = pc
    /\ UNCHANGED <<now, ewma_alpha, total_lines, hunterVars, ewmaVars>>
    /\ UNCHANGED <<args, stop_event, unread, line, last_export, export_file,
                   yielded, stopped_at>>

\* iter_lines_follow, the body of the while loop: readline, then sleep and
\* seek back at the end of the log, or yield the line
GenRead ==
    /\ pc = "next" /\ it = "read"
    /\ IF unread # <<>>
       THEN /\ line' = Head(unread)
            /\ unread' = Tail(unread)
            /\ yielded' = yielded + 1
            /\ pc' = "check"
       ELSE UNCHANGED <<line, unread, yielded, pc>>
    /\ it' = "follow"
    /\ UNCHANGED <<now, ewma_alpha, total_lines, hunterVars, ewmaVars>>
    /\ UNCHANGED <<args, stop_event, last_export, export_file, stopped_at>>

\* a loop without the test of the stop event: every yielded line is counted
LoopCheckNoBreak ==
    /\ pc = "check"
    /\ pc' = "count"
    /\ UNCHANGED <<now, ewma_alpha, total_lines, hunterVars, ewmaVars>>
    /\ UNCHANGED <<args, stop_event, it, unread, line, last_export, export_file,
                   yielded, stopped_at>>

\* run, `if stop_event.is_set(): break`
LoopCheck ==
    /\ pc = "check"
    /\ pc' = IF stop_event THEN "final" ELSE "count"
    /\ UNCHANGED <<now, ewma_alpha, total_lines, hunterVars, ewmaVars>>
    /\ UNCHANGED <<args, stop_event, it, unread, line, last_export, export_file,
                   yielded, stopped_at>>

\* run, `hunter.stats.total_lines += 1`
LoopCount ==
    /\ pc = "count"
    /\ total_lines' = total_lines + 1
    /\ pc' = "ingest"
    /\ UNCHANGED <<now, ewma_alpha, hunterVars, ewmaVars>>
    /\ UNCHANGED <<args, stop_event, it, unread, line, last_export, export_file,
                   yielded, stopped_at>>

\* run, `ev = parse_line(line, fmt)` and `if ev: hunter.ingest_event(ev)`
LoopIngest ==
    /\ pc = "ingest"
    /\ IF line.parsed THEN IngestEffect(line.ev) ELSE UNCHANGED hunterVars
    /\ pc' = "export"
    /\ UNCHANGED <<now, ewma_alpha, total_lines, ewmaVars>>
    /\ UNCHANGED <<args, stop_event, it, unread, line, last_export, export_file,
                   yielded, stopped_at>>

\* run, the periodic export at the end of the loop body
LoopExport ==
    /\ pc = "export"
    /\ IF args.export /\ now - last_export >= args.export_every
       THEN export_file' = ToReportValue /\ last_export' = now
       ELSE UNCHANGED <<export_file, last_export>>
    /\ pc' = "next"
    /\ UNCHANGED <<now, ewma_alpha, total_lines, hunterVars, ewmaVars>>
    /\ UNCHANGED <<args, stop_event, it, unread, line, yielded, stopped_at>>

\* run, the final export after the loop
FinalExport ==
    /\ pc = "final"
    /\ IF args.export
       THEN export_file' = ToReportValue
       ELSE UNCHANGED export_file
    /\ pc' = "done"
    /\ UNCHANGED <<now, ewma_alpha, total_lines, hunterVars, ewmaVars>>
    /\ UNCHANGED <<args, stop_event, it, unread, line, last_export, yielded,
                   stopped_at>>

\* the steps of the thread of run around the call of ingest_event
LoopControl ==
    \/ GenStart \/ GenReplay \/ GenFollow \/ GenRead
    \/ LoopCheck \/ LoopCount \/ LoopExport \/ FinalExport

\* the steps of the thread of run
LoopStep == LoopControl \/ LoopIngest

\* parse_line and ingest_event return: the thread leaves the statement
IngestReturns == pc = "ingest" /\ pc' = "export"

NextRun == Tick \/ AppendLine \/ Signal \/ LoopStep

\* the thread of run keeps running: time.sleep returns, and so does
\* ingest_event, which loops over nothing unbounded
SpecRun ==
    InitRun /\ [][NextRun]_vars /\ WF_vars(LoopControl) /\ WF_pc(IngestReturns)

(***************************************************************************)
(* Vocabulary of the properties.                                           *)
(***************************************************************************)
\* the alerts built by the last ingest_event call, in order
NewAlerts == SubSeq(emitted, lastCall.first, Len(emitted))

\* the timestamps ever appended to a counter
Recorded(key) == Get(recorded, key, <<>>)

\* how many of them are at most `window` old at time t
InWindow(key, t) ==
    Cardinality({i \in 1..Len(Recorded(key)) : t - Recorded(key)[i] <= window})

\* how many of them are less than `window` old at time t
StrictlyInWindow(key, t) ==
    Cardinality({i \in 1..Len(Recorded(key)) : t - Recorded(key)[i] < window})

\* the deque behind a counter key
Counter(key) ==
    IF key[1] = "all" THEN Get(events_by_ip, key[2], <<>>)
    ELSE IF key[1] = "failed" THEN Get(failed_logins_by_ip, key[2], <<>>)
    ELSE Get(Get(status_by_ip, key[2], EmptyMap), key[3], <<>>)

AlertsOf(ip) == SelectSeq(emitted, LAMBDA a : a.ip = ip)

IsStorm(a) == a.kind \in {"403_storm", "404_storm"}

LastIsFailedLogin ==
    /\ lastCall.ev.type = "syslog"
    /\ lastCall.ev.event = "failed_login"
    /\ lastCall.ev.ip # NoIp

LastIsRequest == lastCall.ev.type = "nginx" /\ lastCall.ev.ip # NoIp

(***************************************************************************)
(* C1: brute force rule.  A failed login of an entity emits exactly one    *)
(* alert (bruteforce, critical, score 9.0 + 0.5 * (N - threshold)) when    *)
(* the in-window failed-login count N of the entity has reached            *)
(* threshold, and none otherwise; so `threshold` failed logins within the  *)
(* window give exactly one alert in total, of score 9.0, and fewer than    *)
(* threshold failed logins give no alert for the entity.                   *)
(***************************************************************************)
C1_Bruteforce ==
    /\ LastIsFailedLogin =>
         LET ip == lastCall.ev.ip
             N == InWindow(FailedKey(ip), lastCall.t)
         IN  IF N >= threshold
             THEN /\ Len(NewAlerts) = 1
                  /\ NewAlerts[1].kind = "bruteforce"
                  /\ NewAlerts[1].severity = "critical"
                  /\ NewAlerts[1].ip = ip
                  /\ NewAlerts[1].score = 900 + 50 * (N - threshold)
             ELSE NewAlerts = <<>>
    /\ \A ip \in Entities :
         LET rec == Recorded(FailedKey(ip))
         IN  /\ Len(rec) < threshold => AlertsOf(ip) = <<>>
             /\ (Len(rec) = threshold /\ rec[threshold] - rec[1] <= window) =>
                  /\ Len(AlertsOf(ip)) = 1
                  /\ AlertsOf(ip)[1].kind = "bruteforce"
                  /\ AlertsOf(ip)[1].severity = "critical"
                  /\ AlertsOf(ip)[1].score = 900

\* the threshold-th failed login has just fired at score 9.0
C1_Witness ==
    /\ LastIsFailedLogin
    /\ Len(Recorded(FailedKey(lastCall.ev.ip))) = threshold
    /\ Len(NewAlerts) = 1
    /\ NewAlerts[1].score = 900

(***************************************************************************)
(* C2: status storm rule.  A request of an entity with status s in         *)
(* {403, 404} emits exactly one <s>_storm alert iff the in-window count c  *)
(* of status-s requests of the entity, this one included, is at least      *)
(* threshold; it is medium for 404, high for 403, and scores               *)
(* 7.0 + (c - threshold).  No other request emits a storm alert.           *)
(***************************************************************************)
C2_StatusStorm ==
    LastIsRequest =>
        LET ip == lastCall.ev.ip
            st == lastCall.ev.status
            c == InWindow(StatusKey(ip, st), lastCall.t)
            storms == SelectSeq(NewAlerts, IsStorm)
        IN  IF st \in {"403", "404"} /\ c >= threshold
            THEN /\ Len(storms) = 1
                 /\ storms[1].kind = (IF st = "404" THEN "404_storm" ELSE "403_storm")
                 /\ storms[1].severity = (IF st = "404" THEN "medium" ELSE "high")
                 /\ storms[1].ip = ip
                 /\ storms[1].score = 700 + 100 * (c - threshold)
            ELSE storms = <<>>

\* a second 404 storm alert of score 8.0 follows the first of score 7.0
C2_Witness ==
    \E i, j \in 1..Len(emitted) :
        /\ i < j
        /\ emitted[i].kind = "404_storm" /\ emitted[i].score = 700
        /\ emitted[j].kind = "404_storm" /\ emitted[j].score = 800
        /\ emitted[i].ip = emitted[j].ip
        /\ emitted[j].severity = "medium"

(***************************************************************************)
(* C3: window count.  As claimed: after a prune at time `now` the length   *)
(* of a counter is the number of recorded timestamps t with                *)
(* now - t < window.                                                       *)
(***************************************************************************)
C3_StrictWindowCount ==
    \A key \in DOMAIN recorded :
        Len(Counter(key)) = StrictlyInWindow(key, prunedAt[key])

(***************************************************************************)
(* C3, amended: after a prune at time `now` the counter holds exactly the  *)
(* recorded timestamps t with now - t <= window, oldest first; one that    *)
(* is exactly `window` old is retained.                                    *)
(***************************************************************************)
C3_WindowCount ==
    \A key \in DOMAIN recorded :
        /\ Len(Counter(key)) = InWindow(key, prunedAt[key])
        /\ Counter(key) =
             SelectSeq(Recorded(key), LAMBDA t : prunedAt[key] - t <= window)

\* a counter pruned while one of its timestamps was exactly `window` old,
\* which is retained
C3_Witness ==
    \E key \in DOMAIN recorded :
        \E i \in 1..Len(Counter(key)) :
            /\ prunedAt[key] - Counter(key)[i] = window
            /\ Len(Counter(key)) = 2

(***************************************************************************)
(* Steps of ingest_event, recognised by the event counter.                 *)
(***************************************************************************)
IngestStep == total_events' = total_events + 1

CountersUnchanged ==
    UNCHANGED <<events_by_ip, failed_logins_by_ip, status_by_ip>>

(***************************************************************************)
(* C4: events with no entity.  Ingesting an event with no ip, of any kind  *)
(* and with any path or status, touches no per-entity counter, rate model  *)
(* or per-entity event count and produces no alert: total_alerts and the   *)
(* alert buffer are unchanged.                                             *)
(***************************************************************************)
C4_NoEntityNoAlert ==
    [][(IngestStep /\ lastCall'.ev.ip = NoIp) =>
          /\ CountersUnchanged
          /\ UNCHANGED <<rate_model, per_ip_count>>
          /\ UNCHANGED <<total_alerts, last_alerts>>]_vars

(***************************************************************************)
(* C5: the alert buffer holds at most 100 alerts; every alert built        *)
(* increments total_alerts and goes to the tail, and a full buffer loses   *)
(* its oldest alert, so the buffer is always the most recent               *)
(* min(total_alerts, 100) alerts in emission order.                        *)
(***************************************************************************)
C5_AlertBuffer ==
    /\ Len(last_alerts) <= ALERT_BUFFER
    /\ total_alerts = Len(emitted)
    /\ Len(last_alerts) = Min(total_alerts, ALERT_BUFFER)
    /\ last_alerts = SubSeq(emitted, Len(emitted) - Len(last_alerts) + 1, Len(emitted))

\* more than 100 alerts were emitted and the oldest ones are gone
C5_Witness ==
    /\ total_alerts > ALERT_BUFFER
    /\ Len(last_alerts) = ALERT_BUFFER
    /\ last_alerts[1] = emitted[total_alerts - ALERT_BUFFER + 1]
    /\ last_alerts[1] # emitted[1]

(***************************************************************************)
(* C6: to_report is idempotent.  As claimed: two calls with no ingest      *)
(* between them return identical reports in every field, generated_at      *)
(* included, even when the clock advances between them.                    *)
(***************************************************************************)
C6_IdenticalReports ==
    \A i, j \in 1..Len(reports) : reports[i] = reports[j]

(***************************************************************************)
(* C6, amended: two calls with no ingest between them return reports       *)
(* identical in every field except generated_at, which is the clock        *)
(* reading of each call; the two reports are identical when the clock did  *)
(* not advance between the calls.                                          *)
(***************************************************************************)
C6_IdempotentReport ==
    \A i, j \in 1..Len(reports) :
        i < j =>
            /\ [reports[i] EXCEPT !.generated_at = 0] =
               [reports[j] EXCEPT !.generated_at = 0]
            /\ reports[i].generated_at <= reports[j].generated_at
            /\ reports[j].generated_at <= now
            /\ reports[j].recent_alerts = last_alerts
            /\ reports[j].totals.events_parsed = total_events

\* two reports of a state with an alert, taken at different clock readings
C6_Witness ==
    /\ Len(reports) = 2
    /\ reports[1].generated_at < reports[2].generated_at
    /\ reports[1].recent_alerts # <<>>
    /\ reports[1].top_ips # <<>>

(***************************************************************************)
(* C7: event accounting.  Every ingest_event call increments total_events  *)
(* by exactly one, and every ingested request, failed login or accepted    *)
(* login that carries an entity increments that entity's per-entity event  *)
(* count by exactly one.                                                   *)
(***************************************************************************)
C7_EventAccounting ==
    [][/\ (lastCall' # lastCall \/ emitted' # emitted \/ recorded' # recorded)
            => IngestStep
       /\ (/\ IngestStep
           /\ lastCall'.ev.ip # NoIp
           /\ \/ lastCall'.ev.type = "nginx"
              \/ lastCall'.ev.event \in {"failed_login", "accepted_login"})
            => CountOf(per_ip_count', lastCall'.ev.ip) =
               CountOf(per_ip_count, lastCall'.ev.ip) + 1]_vars

(***************************************************************************)
(* C8: suspicious path rule.  Every request whose path contains a          *)
(* configured suspicious substring emits exactly one suspicious_path       *)
(* alert (medium, score 6.0) whatever its status, with or without an       *)
(* entity and however many came before; other requests emit none; and the  *)
(* first request of an entity, with status 200 and such a path, emits      *)
(* exactly one alert in total.                                             *)
(***************************************************************************)
C8_SuspiciousPath ==
    /\ IsSuspicious(AdminPath) /\ IsSuspicious(EnvPath) /\ ~IsSuspicious(PlainPath)
    /\ lastCall.ev.type = "nginx" =>
         LET susp == SelectSeq(NewAlerts, LAMBDA a : a.kind = "suspicious_path")
         IN  /\ IF IsSuspicious(lastCall.ev.path)
                THEN /\ Len(susp) = 1
                     /\ NewAlerts[1] = susp[1]
                     /\ susp[1].severity = "medium"
                     /\ susp[1].score = 600
                     /\ susp[1].ip = lastCall.ev.ip
                ELSE susp = <<>>
             /\ (/\ IsSuspicious(lastCall.ev.path)
                 /\ lastCall.ev.status = "200"
                 /\ Len(Recorded(AllKey(lastCall.ev.ip))) = 1)
                  => Len(NewAlerts) = 1

\* a second suspicious request with status 200 has raised a second alert
C8_Witness ==
    /\ lastCall.ev.type = "nginx"
    /\ lastCall.ev.status = "200"
    /\ lastCall.ev.ip # NoIp
    /\ Len(NewAlerts) = 1
    /\ Len(emitted) = 2
    /\ emitted[1].kind = "suspicious_path"
    /\ emitted[2].kind = "suspicious_path"

(***************************************************************************)
(* C9: accepted login.  As claimed: an accepted login of an entity records *)
(* one timestamp into the entity's all-requests counter only; it emits no  *)
(* alert and leaves every per-status counter, the failed-login counter and *)
(* the rate model of every entity unchanged.                               *)
(***************************************************************************)
LastIsAcceptedLogin ==
    /\ lastCall'.ev.type = "syslog"
    /\ lastCall'.ev.event = "accepted_login"
    /\ lastCall'.ev.ip # NoIp

RecordsIntoAllRequests(ip) ==
    /\ ip \in DOMAIN events_by_ip'
    /\ events_by_ip'[ip] # <<>>
    /\ events_by_ip'[ip][Len(events_by_ip'[ip])] = now
    /\ Get(recorded', AllKey(ip), <<>>) = Append(Recorded(AllKey(ip)), now)
    /\ \A other \in (DOMAIN events_by_ip' \cup DOMAIN events_by_ip) \ {ip} :
          /\ other \in DOMAIN events_by_ip /\ other \in DOMAIN events_by_ip'
          /\ events_by_ip'[other] = events_by_ip[other]

C9_AcceptedLoginAllRequestsOnly ==
    [][(IngestStep /\ LastIsAcceptedLogin) =>
          /\ RecordsIntoAllRequests(lastCall'.ev.ip)
          /\ UNCHANGED <<status_by_ip, failed_logins_by_ip, rate_model>>
          /\ UNCHANGED <<total_alerts, last_alerts, emitted>>]_vars

(***************************************************************************)
(* C9, amended: an accepted login of an entity records one timestamp into  *)
(* the entity's all-requests counter and one into its per-status counter   *)
(* of status 200 (it is recorded as a request of status 200); it emits no  *)
(* alert and leaves every other per-status counter, the failed-login       *)
(* counter and the rate model of every entity unchanged.                   *)
(***************************************************************************)
StatusCounter(m, ip, st) == Get(Get(m, ip, EmptyMap), st, <<>>)

C9_AcceptedLogin ==
    [][(IngestStep /\ LastIsAcceptedLogin) =>
          LET ip == lastCall'.ev.ip
              dq == StatusCounter(status_by_ip', ip, "200")
          IN  /\ RecordsIntoAllRequests(ip)
              /\ dq # <<>> /\ dq[Len(dq)] = now
              /\ Get(recorded', StatusKey(ip, "200"), <<>>) =
                    Append(Recorded(StatusKey(ip, "200")), now)
              /\ \A e \in Entities : \A st \in Statuses :
                    (e # ip \/ st # "200") =>
                        StatusCounter(status_by_ip', e, st) =
                        StatusCounter(status_by_ip, e, st)
              /\ UNCHANGED <<failed_logins_by_ip, rate_model>>
              /\ UNCHANGED <<total_alerts, last_alerts, emitted>>]_vars

\* an accepted login has just been recorded for an entity that already had
\* failed logins
C9_Witness ==
    /\ lastCall.ev.type = "syslog"
    /\ lastCall.ev.event = "accepted_login"
    /\ lastCall.ev.ip # NoIp
    /\ StatusCounter(status_by_ip, lastCall.ev.ip, "200") # <<>>
    /\ Get(failed_logins_by_ip, lastCall.ev.ip, <<>>) # <<>>

(***************************************************************************)
(* C10: the top-entities list of a report has at most 10 entries; they     *)
(* are the entities of highest per-entity event count, in descending       *)
(* count order, and entities of equal count are in the order in which the  *)
(* per-entity counts first observed them.                                  *)
(***************************************************************************)
PosOf(ip) == CHOOSE p \in 1..Len(per_ip_count) : per_ip_count[p].ip = ip

\* item a ranks before item b
RanksBefore(a, b) ==
    \/ a.events > b.events
    \/ a.events = b.events /\ PosOf(a.ip) < PosOf(b.ip)

C10_TopEntities ==
    \A k \in 1..Len(reports) :
        LET top == reports[k].top_ips
        IN  /\ Len(top) <= TOP_N
            /\ Len(top) = Min(TOP_N, Len(per_ip_count))
            /\ \A i \in 1..Len(top) :
                  \E p \in 1..Len(per_ip_count) : per_ip_count[p] = top[i]
            /\ \A i, j \in 1..Len(top) : i < j => RanksBefore(top[i], top[j])
            /\ \A p \in 1..Len(per_ip_count) :
                  (\A i \in 1..Len(top) : top[i] # per_ip_count[p]) =>
                      \A i \in 1..Len(top) : RanksBefore(top[i], per_ip_count[p])

\* a report of eleven entities, first seen in descending address order:
\* ten are listed, with a tie among them and one entity left out
C10_Witness ==
    \E k \in 1..Len(reports) :
        LET top == reports[k].top_ips
        IN  /\ Len(per_ip_count) > TOP_N
            /\ Len(top) = TOP_N
            /\ per_ip_count[1].ip = "10.0.0.11"
            /\ top[1].events > top[2].events
            /\ top[2].events = top[3].events
            /\ top[1].ip # per_ip_count[1].ip

(***************************************************************************)
(* Vocabulary of the rate rule.                                            *)
(***************************************************************************)
\* how many timestamps of seq are at most `window` old at time t
CountWithin(seq, t) ==
    Cardinality({i \in 1..Len(seq) : t - seq[i] <= window})

\* the alerts built by the step
StepAlerts == SubSeq(emitted', Len(emitted) + 1, Len(emitted'))

IsRateAnomaly(a) == a.kind = "rate_anomaly"

\* the step is ingest_event on a request that carries an entity
RequestStep ==
    /\ IngestStep
    /\ lastCall'.ev.type = "nginx"
    /\ lastCall'.ev.ip # NoIp

\* the in-window all-requests count and the rate of the step's entity
StepCount == CountWithin(Get(recorded', AllKey(lastCall'.ev.ip), <<>>), now)

StepRate == Rat(StepCount, Max(window, 1))

\* the rate model of the step's entity updated with the step's rate
StepModel ==
    EwmaUpdate(Get(rate_model, lastCall'.ev.ip, NewEWMA), ewma_alpha, StepRate)

(***************************************************************************)
(* C11: rate anomaly rule.  On a request with an entity the entity's rate  *)
(* model is updated with rate = (in-window all-requests count) / window,   *)
(* and exactly one rate_anomaly alert (high, score min(10.0, 7.5 + z),     *)
(* which is 10.0 whenever z > 3.0) is emitted iff the z-score of that rate *)
(* under the updated model is above 3.0 and the count is strictly greater  *)
(* than threshold; no rate_anomaly alert scores more than 10.0.            *)
(***************************************************************************)
C11_RateAnomaly ==
    [][RequestStep =>
          LET ip == lastCall'.ev.ip
              anomalies == SelectSeq(StepAlerts, IsRateAnomaly)
          IN  /\ ip \in DOMAIN rate_model'
              /\ rate_model'[ip] = StepModel
              /\ IF ZScoreAboveLimit(StepModel, StepRate) /\ StepCount > threshold
                 THEN /\ Len(anomalies) = 1
                      /\ anomalies[1].severity = "high"
                      /\ anomalies[1].ip = ip
                      /\ anomalies[1].score = 1000
                 ELSE anomalies = <<>>
              /\ \A i \in 1..Len(emitted') :
                    IsRateAnomaly(emitted'[i]) => emitted'[i].score <= 1000]_vars

\* a burst has raised a rate_anomaly alert of score 10.0 on the second
\* request of an entity
C11_Witness ==
    /\ LastIsRequest
    /\ \E i \in 1..Len(NewAlerts) :
          /\ IsRateAnomaly(NewAlerts[i])
          /\ NewAlerts[i].score = 1000
          /\ NewAlerts[i].severity = "high"
    /\ InWindow(AllKey(lastCall.ev.ip), lastCall.t) > threshold
    /\ ZScoreAboveLimit(rate_model[lastCall.ev.ip],
                        Rat(InWindow(AllKey(lastCall.ev.ip), lastCall.t), Max(window, 1)))

(***************************************************************************)
(* C12: alerts per call.  One ingest_event call emits one alert per rule   *)
(* whose condition holds and no others: for a request, in this order, at   *)
(* most one suspicious_path, one storm and one rate_anomaly alert; for a   *)
(* failed login at most one bruteforce alert; for anything else none.      *)
(* Each alert is recorded in Stats within the call: total_alerts grows by  *)
(* the number of matching rules and the alerts go to the tail of the       *)
(* buffer in that order.                                                   *)
(***************************************************************************)
\* the kinds of the rules the step's event matches, in rule order
StepMatches ==
    LET ev == lastCall'.ev
        c == CountWithin(Get(recorded', StatusKey(ev.ip, ev.status), <<>>), now)
        f == CountWithin(Get(recorded', FailedKey(ev.ip), <<>>), now)
    IN  IF ev.type = "nginx"
        THEN (IF IsSuspicious(ev.path) THEN <<"suspicious_path">> ELSE <<>>) \o
             (IF ev.ip # NoIp /\ ev.status = "403" /\ c >= threshold
              THEN <<"403_storm">> ELSE <<>>) \o
             (IF ev.ip # NoIp /\ ev.status = "404" /\ c >= threshold
              THEN <<"404_storm">> ELSE <<>>) \o
             (IF /\ ev.ip # NoIp
                 /\ ZScoreAboveLimit(StepModel, StepRate)
                 /\ StepCount > threshold
              THEN <<"rate_anomaly">> ELSE <<>>)
        ELSE IF ev.type = "syslog" /\ ev.event = "failed_login" /\ ev.ip # NoIp
        THEN (IF f >= threshold THEN <<"bruteforce">> ELSE <<>>)
        ELSE <<>>

C12_AlertsPerCall ==
    [][IngestStep =>
          LET buffered == last_alerts \o StepAlerts
          IN  /\ Len(emitted') >= Len(emitted)
              /\ SubSeq(emitted', 1, Len(emitted)) = emitted
              /\ [i \in 1..Len(StepAlerts) |-> StepAlerts[i].kind] = StepMatches
              /\ total_alerts' = total_alerts + Len(StepMatches)
              /\ last_alerts' =
                    SubSeq(buffered, Max(1, Len(buffered) - ALERT_BUFFER + 1),
                           Len(buffered))]_vars

\* one request has matched the three request rules at once
C12_Witness ==
    /\ LastIsRequest
    /\ Len(NewAlerts) = 3
    /\ NewAlerts[1].kind = "suspicious_path"
    /\ NewAlerts[2].kind = "404_storm"
    /\ NewAlerts[3].kind = "rate_anomaly"
    /\ total_alerts = Len(emitted)
    /\ SubSeq(last_alerts, Len(last_alerts) - 2, Len(last_alerts)) = NewAlerts

(***************************************************************************)
(* C13: EWMA convergence.  For any alpha in (0,1] and any value x, a fresh *)
(* rate model fed x repeatedly has mean = x and zscore(x) = 0 after the    *)
(* first update and after every later update with the same x (in exact     *)
(* arithmetic), so both are reached within one update.                     *)
(***************************************************************************)
FedConstant == fed # <<>> /\ \A i \in 1..Len(fed) : fed[i] = fed[1]

C13_Convergence ==
    FedConstant =>
        /\ ewma.initialized
        /\ ewma.mean = fed[1]
        /\ ZScoreIsZero(ewma, fed[1])
        /\ ~ZScoreAboveLimit(ewma, fed[1])

\* three updates with the same non-zero value under an alpha below 1: the
\* variance has decayed and the mean is the value
C13_Witness ==
    /\ FedConstant
    /\ Len(fed) >= 3
    /\ fed[1] = <<1, 2>>
    /\ ewma_alpha = DefaultAlpha
    /\ ewma.mean = <<1, 2>>
    /\ RatLess(ewma.var, RatOne)

(***************************************************************************)
(* C14: prune invariant.  The clock readings passed as `now` never         *)
(* decrease (the clock of the model only advances); then every counter     *)
(* holds its timestamps oldest first, and after a prune at time `now`      *)
(* every timestamp the counter retains satisfies now - timestamp <= window *)
(* (a counter only changes in an operation that ends with a prune).        *)
(***************************************************************************)
C14_PruneInvariant ==
    \A key \in DOMAIN recorded :
        LET dq == Counter(key)
        IN  /\ key \in DOMAIN prunedAt
            /\ prunedAt[key] <= now
            /\ \A i, j \in 1..Len(dq) : i < j => dq[i] <= dq[j]
            /\ \A i \in 1..Len(dq) :
                  /\ prunedAt[key] - dq[i] <= window
                  /\ dq[i] <= prunedAt[key]

\* a prune has dropped the oldest of three timestamps and retained the two
\* younger ones, recorded at different times
C14_Witness ==
    \E key \in DOMAIN recorded :
        /\ Len(Recorded(key)) = 3
        /\ Len(Counter(key)) = 2
        /\ Counter(key)[1] < Counter(key)[2]
        /\ prunedAt[key] - Recorded(key)[1] > window

(***************************************************************************)
(* C15: rate model invariant.  In every reachable state, for every alpha   *)
(* in (0,1], the variance stored in every entity's rate model is at least  *)
(* the floor 1e-6, also after repeated updates with the same value and     *)
(* with alpha = 1.                                                         *)
(***************************************************************************)
\* a rational below 1e-6
BelowFloor(v) == RatLess(v, <<1, FLOOR_DEN>>)

C15_VarianceFloor ==
    \A ip \in DOMAIN rate_model : ~BelowFloor(rate_model[ip].var)

(***************************************************************************)
(* C16: storm counters are per (entity, status).  A request of entity e    *)
(* with status s appends to the counter of (e, s) and to no other          *)
(* per-status counter; a storm alert is of the request's own entity and    *)
(* status and needs threshold requests in that one counter.  So 403s and   *)
(* 404s, or requests of several entities, that reach threshold only        *)
(* together emit no storm alert.                                           *)
(***************************************************************************)
\* the storm alerts of entity ip and status st emitted so far
StormsOf(ip, st) ==
    SelectSeq(emitted, LAMBDA a : a.ip = ip /\ a.kind = StormKind(st) /\ IsStorm(a))

C16_StormPerEntityStatus ==
    [][RequestStep =>
          LET ip == lastCall'.ev.ip
              st == lastCall'.ev.status
              dq == StatusCounter(status_by_ip', ip, st)
              storms == SelectSeq(StepAlerts, IsStorm)
          IN  /\ dq # <<>> /\ dq[Len(dq)] = now
              /\ \A e \in Entities : \A s \in Statuses :
                    (e # ip \/ s # st) =>
                        StatusCounter(status_by_ip', e, s) =
                        StatusCounter(status_by_ip, e, s)
              /\ \A i \in 1..Len(storms) :
                    /\ storms[i].ip = ip
                    /\ storms[i].kind = StormKind(st)
                    /\ st \in {"403", "404"}
                    /\ Len(dq) >= threshold
                    /\ Len(Get(recorded', StatusKey(ip, st), <<>>)) >= threshold
              /\ Len(dq) < threshold => storms = <<>>]_vars

\* a 403 and a 404 of one entity and a 404 of another, all in the window:
\* threshold is reached only together and no storm alert was emitted
C16_Witness ==
    /\ Len(Counter(StatusKey("1.2.3.4", "403"))) = 1
    /\ Len(Counter(StatusKey("1.2.3.4", "404"))) = 1
    /\ Len(Counter(StatusKey("5.6.7.8", "404"))) = 1
    /\ Len(Counter(StatusKey("1.2.3.4", "403"))) +
       Len(Counter(StatusKey("1.2.3.4", "404"))) >= threshold
    /\ Len(Counter(StatusKey("1.2.3.4", "404"))) +
       Len(Counter(StatusKey("5.6.7.8", "404"))) >= threshold
    /\ \A i \in 1..Len(emitted) : ~IsStorm(emitted[i])
    /\ StormsOf("1.2.3.4", "404") = <<>>

(***************************************************************************)
(* C17: to_report is read-only.  A call of to_report, in any reachable     *)
(* state, leaves total_lines, total_events, total_alerts, the per-entity   *)
(* event counts and their key set, the alert buffer, every windowed        *)
(* counter and every rate model unchanged.                                 *)
(***************************************************************************)
\* the step is a call of to_report
ReportStep == Len(reports') = Len(reports) + 1

C17_ReportReadOnly ==
    [][ReportStep =>
          /\ UNCHANGED <<total_lines, total_events, total_alerts>>
          /\ UNCHANGED per_ip_count
          /\ [i \in 1..Len(per_ip_count') |-> per_ip_count'[i].ip] = SeenIps
          /\ UNCHANGED last_alerts
          /\ UNCHANGED <<events_by_ip, failed_logins_by_ip, status_by_ip>>
          /\ DOMAIN events_by_ip' = DOMAIN events_by_ip
          /\ UNCHANGED rate_model
          /\ reports'[Len(reports')].totals.events_parsed = total_events'
          /\ reports'[Len(reports')].recent_alerts = last_alerts']_vars

\* a report was taken of a hunter that holds counters of two entities, a
\* rate model and an alert, and they are all still there
C17_Witness ==
    /\ Len(reports) = 1
    /\ Len(per_ip_count) = 2
    /\ total_alerts > 0
    /\ last_alerts # <<>>
    /\ DOMAIN rate_model # {}
    /\ DOMAIN events_by_ip = {"1.2.3.4", "5.6.7.8"}
    /\ Len(reports[1].top_ips) = 2
    /\ reports[1].totals.alerts = total_alerts

(***************************************************************************)
(* C18: the z-score of the rate rule is bounded.  The rate model is        *)
(* updated with the rate before the z-score of that rate is taken, so on   *)
(* every request z <= (1 - alpha) / sqrt(alpha), and z = 0 on the first    *)
(* request of an entity.  With the default ewma_alpha = 0.3 the bound is   *)
(* below 3.0 and no rate_anomaly alert is ever emitted.                    *)
(***************************************************************************)
\* (1 - alpha)^2
RestSquared(alpha) ==
    RatMul(RatSub(RatOne, alpha), RatSub(RatOne, alpha))

\* zscore(x) <= (1 - alpha) / sqrt(alpha), that is: x <= mean, or
\* alpha * (x - mean)^2 <= (1 - alpha)^2 * max(var, 1e-6)
ZScoreWithinBound(m, alpha, x) ==
    LET d == RatSub(x, m.mean)
    IN  \/ d[1] <= 0
        \/ ~RatLess(RatMul(RestSquared(alpha), FlooredVar(m)),
                    RatMul(alpha, RatMul(d, d)))

C18_ZScoreBound ==
    [][RequestStep =>
          LET ip == lastCall'.ev.ip
          IN  /\ ip \in DOMAIN rate_model'
              /\ ZScoreWithinBound(rate_model'[ip], ewma_alpha, StepRate)
              /\ ip \notin DOMAIN rate_model =>
                    ZScoreIsZero(rate_model'[ip], StepRate)
              /\ ewma_alpha = DefaultAlpha =>
                    /\ RatLess(RestSquared(ewma_alpha),
                               RatMul(<<Z_LIMIT * Z_LIMIT, 1>>, ewma_alpha))
                    /\ ~ZScoreAboveLimit(rate_model'[ip], StepRate)
                    /\ \A i \in 1..Len(emitted') : ~IsRateAnomaly(emitted'[i])]_vars

\* under the default alpha a burst above threshold has a z-score above 1
\* and raises no rate_anomaly alert
C18_Witness ==
    /\ ewma_alpha = DefaultAlpha
    /\ LastIsRequest
    /\ InWindow(AllKey(lastCall.ev.ip), lastCall.t) > threshold + 1
    /\ LET m == rate_model[lastCall.ev.ip]
           d == RatSub(Rat(InWindow(AllKey(lastCall.ev.ip), lastCall.t),
                           Max(window, 1)), m.mean)
       IN  d[1] > 0 /\ RatLess(FlooredVar(m), RatMul(d, d))
    /\ \A i \in 1..Len(emitted) : ~IsRateAnomaly(emitted[i])

(***************************************************************************)
(* C19: per-entity isolation.  Ingesting an event of entity A leaves the   *)
(* all-requests counter, every per-status counter, the failed-login        *)
(* counter, the rate model and the per-entity event count of every other   *)
(* entity B unchanged (B's stale timestamps stay: pruning is lazy), and    *)
(* every alert it emits carries entity A.                                  *)
(***************************************************************************)
\* entity e has the same value, or the same absence, in the maps m and n
SameEntry(m, n, e) ==
    /\ (e \in DOMAIN m) = (e \in DOMAIN n)
    /\ e \in DOMAIN m => m[e] = n[e]

C19_EntityIsolation ==
    [][IngestStep =>
          LET A == lastCall'.ev.ip
          IN  /\ \A B \in Entities \ {A} :
                    /\ SameEntry(events_by_ip, events_by_ip', B)
                    /\ SameEntry(status_by_ip, status_by_ip', B)
                    /\ SameEntry(failed_logins_by_ip, failed_logins_by_ip', B)
                    /\ SameEntry(rate_model, rate_model', B)
                    /\ CountOf(per_ip_count', B) = CountOf(per_ip_count, B)
                    /\ (\E i \in 1..Len(per_ip_count') : per_ip_count'[i].ip = B) =
                       (\E i \in 1..Len(per_ip_count) : per_ip_count[i].ip = B)
              /\ \A i \in 1..Len(StepAlerts) : StepAlerts[i].ip = A]_vars

\* an event of one entity was ingested, with an alert, while the counter of
\* the other entity held a timestamp older than the window, which is
\* still there
C19_Witness ==
    /\ lastCall.ev.ip \in Entities
    /\ NewAlerts # <<>>
    /\ \E B \in Entities \ {lastCall.ev.ip} :
          /\ B \in DOMAIN events_by_ip
          /\ events_by_ip[B] # <<>>
          /\ lastCall.t - events_by_ip[B][1] > window
          /\ B \in DOMAIN rate_model

(***************************************************************************)
(* C20: shutdown.  As claimed: once the stop event is set the loop counts  *)
(* and ingests no further line and the generator yields no further line.   *)
(***************************************************************************)
C20_StopsAtOnce ==
    [][stop_event =>
          /\ total_lines' = total_lines
          /\ total_events' = total_events
          /\ yielded' = yielded]_vars

(***************************************************************************)
(* C20, amended: the loop tests the stop event once per line, before it    *)
(* counts the line, so a signal that arrives after the test lets the line  *)
(* in hand through: after the stop at most one more line is counted and    *)
(* at most one more event ingested, and only for a signal that arrived     *)
(* between the test and the statement.  The generator yields at most one   *)
(* more line, which the loop drops: when run has ended the lines counted   *)
(* are the lines yielded before the signal, less the one that was waiting  *)
(* for the test.  The loop ends only on the stop event, and once the event *)
(* is set run ends, in replay and in follow mode; it has then written the  *)
(* report of the final state when an export is configured, and nothing     *)
(* otherwise.  events_parsed <= lines_processed throughout.                *)
(***************************************************************************)
\* what may still happen once the stop event is set
AfterStop ==
    /\ total_lines <= stopped_at.lines + 1
    /\ total_events <= stopped_at.events + 1
    /\ yielded <= stopped_at.yielded + 1
    /\ total_lines > stopped_at.lines => stopped_at.pc = "count"
    /\ total_events > stopped_at.events => stopped_at.pc \in {"count", "ingest"}

\* the state in which run returns
AtExit ==
    /\ total_lines =
          stopped_at.yielded - (IF stopped_at.pc = "check" THEN 1 ELSE 0)
    /\ IF args.export
       THEN /\ export_file # NoReport
            /\ [export_file EXCEPT !.generated_at = now] = ToReportValue
       ELSE export_file = NoReport

C20_Shutdown ==
    /\ [](total_events <= total_lines)
    /\ [](pc \in {"final", "done"} => stop_event)
    /\ [](stop_event => AfterStop)
    /\ [](pc = "done" => AtExit)
    /\ (stop_event ~> pc = "done")

\* a replay with an export has ended: the signal arrived after the test of
\* the stop event, the line in hand was counted and ingested all the same,
\* the generator yielded the next line, the loop dropped it, and the final
\* report holds the totals
C20_Witness ==
    /\ pc = "done"
    /\ args.replay /\ args.export
    /\ stopped_at.pc = "count"
    /\ total_lines = stopped_at.lines + 1
    /\ total_events = stopped_at.events + 1
    /\ yielded = stopped_at.yielded + 1
    /\ export_file.totals.lines_processed = total_lines
    /\ export_file.totals.events_parsed = total_events

====
